---- MODULE Spec2Model ----
(***************************************************************************)
(* Model of avro-flow-codegen: parseFile flattens an Avro schema into an   *)
(* ordered table of named declarations (context.allTypes) and renders the  *)
(* table with the Flow or the TypeScript transformer.                      *)
(*                                                                         *)
(* A JavaScript string is modelled as a sequence of one-character strings, *)
(* so that the regular expression of validateAvroCustomName and the        *)
(* character operations of createTypeName are computed, not assumed.       *)
(* A schema node (a.AvroType) is a record with a field `kind`:             *)
(*   "string"  a JSON string (primitive keyword or custom type name)       *)
(*   "union"   a JSON array                                                *)
(*   "record" | "array" | "enum" | "map"   an object with that `type`      *)
(*   "object"  an object with any other `type` (e.g. {type: 'int'})        *)
(*                                                                         *)
(* `previous` records the preceding call of parseFile on the same schema   *)
(* (specification SpecTwice); `namePath` and `composed` are the argument   *)
(* and the value of a call of createTypeName (specification SpecNames).    *)
(***************************************************************************)
EXTENDS Integers, Sequences, FiniteSets, TLC

VARIABLES input, target, wrapPrimitivesOpt, pc, stack, allTypes, last,
          statements, result, previous, namePath, composed

vars == <<input, target, wrapPrimitivesOpt, pc, stack, allTypes, last,
          statements, result, previous, namePath, composed>>

\* What a step of one call of parseFile leaves alone.
otherCalls == <<previous, namePath, composed>>

(***************************************************************************)
(* Strings                                                                 *)
(***************************************************************************)
LowerCase == <<"a","b","c","d","e","f","g","h","i","j","k","l","m",
               "n","o","p","q","r","s","t","u","v","w","x","y","z">>
UpperCase == <<"A","B","C","D","E","F","G","H","I","J","K","L","M",
               "N","O","P","Q","R","S","T","U","V","W","X","Y","Z">>
Digits == {"0","1","2","3","4","5","6","7","8","9"}
Letters == {LowerCase[i] : i \in 1..26} \cup {UpperCase[i] : i \in 1..26}

toUpperCase(c) ==
  IF \E i \in 1..26 : LowerCase[i] = c
  THEN UpperCase[CHOOSE i \in 1..26 : LowerCase[i] = c]
  ELSE c

\* String.prototype.replace with a string pattern: the first occurrence only.
RECURSIVE replace(_, _, _)
replace(str, pattern, replacement) ==
  IF str = <<>> THEN <<>>
  ELSE IF Head(str) = pattern THEN replacement \o Tail(str)
  ELSE <<Head(str)>> \o replace(Tail(str), pattern, replacement)

\* String.prototype.split with a one-character separator.
RECURSIVE split(_, _)
split(str, sep) ==
  IF str = <<>> THEN << <<>> >>
  ELSE LET rest == split(Tail(str), sep) IN
       IF Head(str) = sep THEN << <<>> >> \o rest
       ELSE << <<Head(str)>> \o Head(rest) >> \o Tail(rest)

\* Array.prototype.join.
RECURSIVE join(_, _)
join(parts, sep) ==
  IF parts = <<>> THEN <<>>
  ELSE IF Len(parts) = 1 THEN parts[1]
  ELSE parts[1] \o sep \o join(Tail(parts), sep)

S_null    == <<"n","u","l","l">>
S_boolean == <<"b","o","o","l","e","a","n">>
S_int     == <<"i","n","t">>
S_long    == <<"l","o","n","g">>
S_float   == <<"f","l","o","a","t">>
S_double  == <<"d","o","u","b","l","e">>
S_bytes   == <<"b","y","t","e","s">>
S_string  == <<"s","t","r","i","n","g">>
S_Map     == <<"M","a","p">>
S_Union   == <<"U","n","i","o","n">>
S_union   == <<"u","n","i","o","n">>
S_array   == <<"a","r","r","a","y">>
S_map     == <<"m","a","p">>
S_Schema  == <<"_","_","S","c","h","e","m","a">>

AllAvroPrimitiveTypes ==
  {S_null, S_boolean, S_int, S_long, S_float, S_double, S_bytes, S_string}

(***************************************************************************)
(* Schema nodes and the dispatch of handleAvroType                         *)
(***************************************************************************)
Str(s)            == [kind |-> "string", value |-> s]
Obj(t)            == [kind |-> "object", type |-> t]
ArrayOf(x)        == [kind |-> "array", items |-> x]
MapOf(x)          == [kind |-> "map", values |-> x]
EnumOf(n, syms)   == [kind |-> "enum", name |-> n, symbols |-> syms]
RecordOf(n, flds) == [kind |-> "record", name |-> n, fields |-> flds]
UnionOf(bs)       == [kind |-> "union", branches |-> bs]
Field(n, x)       == [name |-> n, type |-> x]

\* The handler handleAvroType calls for a node.
handleAvroType(avro) ==
  IF avro.kind = "string"
  THEN IF avro.value \in AllAvroPrimitiveTypes THEN "primitive" ELSE "custom"
  ELSE IF avro.kind = "union" THEN "union"
  ELSE IF avro.kind \in {"record", "array", "enum", "map"} THEN avro.kind
  ELSE "primitive"

\* The argument handed to the primitive handler: the string itself, or avro.type.
primitiveArg(avro) == IF avro.kind = "string" THEN avro.value ELSE avro.type

(***************************************************************************)
(* Name resolver                                                           *)
(***************************************************************************)
\* Faulty variant: a leading digit passes.
validateAvroCustomName_anyFirst(string) ==
  /\ Len(string) >= 1
  /\ \A i \in 1..Len(string) : string[i] \in Letters \cup Digits \cup {"_"}

validateAvroCustomName(string) ==
  /\ Len(string) >= 1
  /\ string[1] \in Letters \cup {"_"}
  /\ \A i \in 2..Len(string) : string[i] \in Letters \cup Digits \cup {"_"}

invalidNameMessage(string) ==
  <<"'">> \o string \o <<"' is not a valid avro name">>

capitaliseFirstLetter(str) ==
  IF str = <<>> THEN <<>> ELSE <<toUpperCase(str[1])>> \o Tail(str)

\* Faulty variant: only the first letter of a name is capitalised.
createTypeName_firstOnly(names) ==
  LET perName(name) ==
        LET parts == split(replace(name, " ", <<"_">>), "_")
        IN  replace(capitaliseFirstLetter(join(parts, <<>>)), " ", <<>>)
  IN  join([i \in 1..Len(names) |-> perName(names[i])], <<"_">>)

createTypeName(names) ==
  LET perName(name) ==
        LET parts == split(replace(name, " ", <<"_">>), "_")
            caps  == [i \in 1..Len(parts) |-> capitaliseFirstLetter(parts[i])]
        IN  replace(capitaliseFirstLetter(join(caps, <<>>)), " ", <<>>)
  IN  join([i \in 1..Len(names) |-> perName(names[i])], <<"_">>)

(***************************************************************************)
(* Context                                                                 *)
(***************************************************************************)
\* Faulty variant: unshift instead of push.
addType_unshift(types, name, newType) == <<[name |-> name, type |-> newType]>> \o types

\* Context.addType: this.allTypes.push([name, newType]).
addType(types, name, newType) == Append(types, [name |-> name, type |-> newType])

\* Faulty variant: only the last entry is consulted.
isValidCustomType_lastOnly(types, typeName) ==
  types # <<>> /\ typeName = types[Len(types)].name

\* Faulty variant: only the names of record and enum entries are accepted.
isValidCustomType_declaredOnly(types, typeName) ==
  typeName \in {types[i].name : i \in {j \in 1..Len(types) :
                                          types[j].type.kind \in {"record", "enum"}}}

isValidCustomType(types, typeName) ==
  typeName \in {types[i].name : i \in 1..Len(types)}

\* Faulty variant: wrapping is off unless asked for.
wrapPrimitives_defaultFalse == wrapPrimitivesOpt = "true"

\* new Context(options?.wrapPrimitives ?? true)
wrapPrimitives == IF wrapPrimitivesOpt = "omitted" THEN TRUE ELSE wrapPrimitivesOpt = "true"

(***************************************************************************)
(* Flattening.  The recursion of flattenAvroType is run on an explicit     *)
(* call stack: a frame holds the node, the `names` argument of the call,   *)
(* whether the body has been entered (the name validated), the index of    *)
(* the next child to flatten and the flattened children so far.            *)
(***************************************************************************)
Frame(node, names) ==
  [node |-> node, names |-> names, entered |-> FALSE, idx |-> 1, acc |-> <<>>]

\* The sub-schemas a handler recurses into, in the order of the code's map().
children(avro) ==
  LET h == handleAvroType(avro) IN
  IF h = "record" THEN [i \in 1..Len(avro.fields) |-> avro.fields[i].type]
  ELSE IF h = "array" THEN <<avro.items>>
  ELSE IF h = "map" THEN <<avro.values>>
  ELSE IF h = "union" THEN avro.branches
  ELSE <<>>

\* Faulty variant: the parent names are handed on to the record flattener.
recordParentNames_kept(names) == names

\* flattenAvroType calls flattenAvroRecord(a, [], context): the parent names
\* of a record are dropped.
recordParentNames(names) == <<>>

\* The `names` argument of the recursive call for child i.
childNames(avro, names, i) ==
  IF handleAvroType(avro) = "record"
  THEN recordParentNames(names) \o <<avro.name, avro.fields[i].name>>
  ELSE names

isAvroTypeNull(avro) ==
  handleAvroType(avro) = "primitive" /\ primitiveArg(avro) = S_null

\* Faulty variant: the path-derived name also for the empty path.
unionTypeName_noLiteral(names) == createTypeName(names)

unionTypeName(names) ==
  IF Len(names) > 0 THEN createTypeName(names) ELSE S_Union

\* Faulty variant: the naming path is not consulted.
shouldInline_anyPath(unionTypes, names) ==
  /\ Len(unionTypes.branches) = 2
  /\ \E i \in 1..Len(unionTypes.branches) : isAvroTypeNull(unionTypes.branches[i])

shouldInline(unionTypes, names) ==
  /\ Len(names) > 0
  /\ Len(unionTypes.branches) = 2
  /\ \E i \in 1..Len(unionTypes.branches) : isAvroTypeNull(unionTypes.branches[i])

\* Faulty variant: the record is registered as it came in, not rebuilt.
flattenAvroRecord_unrebuilt(avro, updated, types) ==
  [ret |-> Str(avro.name), types |-> addType(types, avro.name, avro)]

\* What each flattener does once its children are flattened (`updated`):
\* the value it returns and the table after its registration.
flattenAvroRecord(avro, updated, types) ==
  LET rebuilt == RecordOf(avro.name,
                   [i \in 1..Len(avro.fields) |->
                      Field(avro.fields[i].name, updated[i])])
  IN  [ret |-> Str(avro.name), types |-> addType(types, avro.name, rebuilt)]

\* Faulty variant: the array is registered and replaced by a reference.
flattenAvroArray_promoted(avro, updated, types) ==
  [ret |-> Str(<<"A","r","r","a","y">>),
   types |-> addType(types, <<"A","r","r","a","y">>, ArrayOf(updated[1]))]

flattenAvroArray(avro, updated, types) ==
  [ret |-> ArrayOf(updated[1]), types |-> types]

\* Faulty variant: the enum is replaced by its name but not registered.
flattenAvroEnum_unregistered(avro, types) ==
  [ret |-> Str(avro.name), types |-> types]

flattenAvroEnum(avro, types) ==
  [ret |-> Str(avro.name), types |-> addType(types, avro.name, avro)]

\* Faulty variant: the returned reference lacks the "Map" segment.
flattenAvroMapType_wrongReference(avro, names, updated, types) ==
  [ret |-> Str(createTypeName(names)),
   types |-> addType(types, createTypeName(names \o <<S_Map>>), MapOf(updated[1]))]

\* Faulty variant: the map is left in place, like an array.
flattenAvroMapType_inline(avro, names, updated, types) ==
  [ret |-> MapOf(updated[1]), types |-> types]

flattenAvroMapType(avro, names, updated, types) ==
  LET typeName == createTypeName(names \o <<S_Map>>) IN
  [ret |-> Str(typeName), types |-> addType(types, typeName, MapOf(updated[1]))]

flattenAvroUnionType(unionTypes, names, updated, types) ==
  IF shouldInline(unionTypes, names)
  THEN [ret |-> UnionOf(updated), types |-> types]
  ELSE [ret |-> Str(unionTypeName(names)),
        types |-> addType(types, unionTypeName(names), UnionOf(updated))]

flattenAvroType(avro, names, updated, types) ==
  LET h == handleAvroType(avro) IN
  IF h = "primitive" THEN [ret |-> Str(primitiveArg(avro)), types |-> types]
  ELSE IF h = "custom" THEN [ret |-> avro, types |-> types]
  ELSE IF h = "union" THEN flattenAvroUnionType(avro, names, updated, types)
  ELSE IF h = "record" THEN flattenAvroRecord(avro, updated, types)
  ELSE IF h = "array" THEN flattenAvroArray(avro, updated, types)
  ELSE IF h = "enum" THEN flattenAvroEnum(avro, types)
  ELSE flattenAvroMapType(avro, names, updated, types)

Top == stack[Len(stack)]
Pop(s) == SubSeq(s, 1, Len(s) - 1)

NoEntry == [name |-> <<>>, type |-> Str(<<>>)]
Pending == [status |-> "pending", message |-> <<>>, pragma |-> FALSE, code |-> <<>>]
NoInvocation == [status |-> "none"]
Failure(message) == [status |-> "error", message |-> message, pragma |-> FALSE, code |-> <<>>]

\* Faulty variant: the record flattener does not validate its name.
FlattenEnter_recordUnchecked ==
  /\ pc = "flatten"
  /\ ~Top.entered
  /\ IF handleAvroType(Top.node) = "enum"
        /\ ~validateAvroCustomName(Top.node.name)
     THEN /\ pc' = "done"
          /\ result' = Failure(invalidNameMessage(Top.node.name))
          /\ stack' = <<>>
     ELSE /\ stack' = [stack EXCEPT ![Len(stack)].entered = TRUE]
          /\ UNCHANGED <<pc, result>>
  /\ UNCHANGED <<otherCalls, input, target, wrapPrimitivesOpt, allTypes, last, statements>>

\* A call of flattenAvroType reaches the body of its handler; the record and
\* the enum flattener validate the declared name first.
FlattenEnter ==
  /\ pc = "flatten"
  /\ ~Top.entered
  /\ IF handleAvroType(Top.node) \in {"record", "enum"}
        /\ ~validateAvroCustomName(Top.node.name)
     THEN /\ pc' = "done"
          /\ result' = Failure(invalidNameMessage(Top.node.name))
          /\ stack' = <<>>
     ELSE /\ stack' = [stack EXCEPT ![Len(stack)].entered = TRUE]
          /\ UNCHANGED <<pc, result>>
  /\ UNCHANGED <<otherCalls, input, target, wrapPrimitivesOpt, allTypes, last, statements>>

\* The handler calls flattenAvroType on its next child.
FlattenDescend ==
  /\ pc = "flatten"
  /\ Top.entered
  /\ Top.idx <= Len(children(Top.node))
  /\ stack' = Append(stack,
                Frame(children(Top.node)[Top.idx],
                      childNames(Top.node, Top.names, Top.idx)))
  /\ UNCHANGED <<otherCalls, input, target, wrapPrimitivesOpt, pc, allTypes, last,
                 statements, result>>

\* The handler has flattened all its children: it registers its declaration
\* (if any) and returns to its caller; the value returned by the outermost
\* call is dropped by parseFile.
FlattenReturn ==
  /\ pc = "flatten"
  /\ Top.entered
  /\ Top.idx > Len(children(Top.node))
  /\ LET r == flattenAvroType(Top.node, Top.names, Top.acc, allTypes) IN
     /\ allTypes' = r.types
     /\ IF Len(stack) = 1
        THEN /\ stack' = <<>>
             /\ pc' = "getLast"
        ELSE /\ stack' = [Pop(stack) EXCEPT
                            ![Len(stack) - 1].acc = Append(@, r.ret),
                            ![Len(stack) - 1].idx = @ + 1]
             /\ pc' = pc
  /\ UNCHANGED <<otherCalls, input, target, wrapPrimitivesOpt, last, statements, result>>

(***************************************************************************)
(* Transformers.  A rendered type is the Babel AST node the transformer    *)
(* builds; a thrown Error is the value Error(message), which every caller  *)
(* passes on unchanged (the first one in evaluation order).                *)
(***************************************************************************)
Error(message) == [type |-> "Error", message |-> message]
IsError(x) == x.type = "Error"

customTypeMessage(typeName) == typeName \o <<" is not a valid custom type name.">>
bytesMessage == <<"Can't handle bytes">>
emptyArrayMessage == <<"Cannot get last of empty array">>

Identifier(n) == [type |-> "Identifier", name |-> n]
StringLiteral(v) == [type |-> "StringLiteral", value |-> v]
Property(key, value) == [key |-> key, value |-> value]

\* The first thrown Error of a sequence of evaluations, if any.
RECURSIVE firstError(_)
firstError(xs) ==
  IF xs = <<>> THEN [type |-> "None"]
  ELSE IF IsError(Head(xs)) THEN Head(xs)
  ELSE firstError(Tail(xs))

tagForUnionBranch(avro, wrap) ==
  LET h == handleAvroType(avro) IN
  IF h = "primitive"
  THEN IF primitiveArg(avro) = S_null \/ ~wrap
       THEN [tagged |-> FALSE, tag |-> <<>>]
       ELSE [tagged |-> TRUE, tag |-> primitiveArg(avro)]
  ELSE IF h = "union" THEN [tagged |-> TRUE, tag |-> S_union]
  ELSE IF h = "record" THEN [tagged |-> TRUE, tag |-> avro.name]
  ELSE IF h = "array" THEN [tagged |-> TRUE, tag |-> S_array]
  ELSE IF h = "custom" THEN [tagged |-> TRUE, tag |-> avro.value]
  ELSE IF h = "enum" THEN [tagged |-> TRUE, tag |-> avro.name]
  ELSE [tagged |-> TRUE, tag |-> S_map]

\* Faulty variant: every tagless annotation is kept.
uniqueByType_all(anns) == anns

\* Array.from(new Map(tagless.map(ann => [ann.type, ann])).values()): one
\* annotation per type, at the place of the first, with the value of the last.
RECURSIVE uniqueByType(_)
uniqueByType(anns) ==
  IF anns = <<>> THEN <<>>
  ELSE LET k == Head(anns).type
           same == SelectSeq(anns, LAMBDA a : a.type = k)
           rest == SelectSeq(anns, LAMBDA a : a.type # k)
       IN  <<same[Len(same)]>> \o uniqueByType(rest)

\* Faulty variant: bytes rendered like string.
primitive_bytesAsString(tgt, pt) ==
  LET flow == tgt = "flow" IN
  IF pt = S_null
  THEN [type |-> IF flow THEN "NullLiteralTypeAnnotation" ELSE "TSNullKeyword"]
  ELSE IF pt = S_boolean
  THEN [type |-> IF flow THEN "BooleanTypeAnnotation" ELSE "TSBooleanKeyword"]
  ELSE IF pt \in {S_int, S_long, S_float, S_double}
  THEN [type |-> IF flow THEN "NumberTypeAnnotation" ELSE "TSNumberKeyword"]
  ELSE [type |-> IF flow THEN "StringTypeAnnotation" ELSE "TSStringKeyword"]

primitive(tgt, pt) ==
  LET flow == tgt = "flow" IN
  IF pt = S_null
  THEN [type |-> IF flow THEN "NullLiteralTypeAnnotation" ELSE "TSNullKeyword"]
  ELSE IF pt = S_boolean
  THEN [type |-> IF flow THEN "BooleanTypeAnnotation" ELSE "TSBooleanKeyword"]
  ELSE IF pt \in {S_int, S_long, S_float, S_double}
  THEN [type |-> IF flow THEN "NumberTypeAnnotation" ELSE "TSNumberKeyword"]
  ELSE IF pt = S_bytes THEN Error(bytesMessage)
  ELSE IF pt = S_string
  THEN [type |-> IF flow THEN "StringTypeAnnotation" ELSE "TSStringKeyword"]
  ELSE [type |-> "undefined"]

\* Faulty variant: the TypeScript transformer accepts any custom name.
custom_tsUnchecked(tgt, types, typeName) ==
  IF tgt = "flow" /\ ~isValidCustomType(types, typeName)
  THEN Error(customTypeMessage(typeName))
  ELSE IF tgt = "flow"
  THEN [type |-> "GenericTypeAnnotation", id |-> Identifier(typeName)]
  ELSE [type |-> "TSTypeReference", typeName |-> Identifier(typeName),
        typeParameters |-> <<>>]

custom(tgt, types, typeName) ==
  IF ~isValidCustomType(types, typeName) THEN Error(customTypeMessage(typeName))
  ELSE IF tgt = "flow"
  THEN [type |-> "GenericTypeAnnotation", id |-> Identifier(typeName)]
  ELSE [type |-> "TSTypeReference", typeName |-> Identifier(typeName),
        typeParameters |-> <<>>]

objectType(tgt, properties) ==
  IF tgt = "flow"
  THEN [type |-> "ObjectTypeAnnotation", properties |-> properties,
        indexers |-> <<>>, exact |-> TRUE]
  ELSE [type |-> "TSTypeLiteral", members |-> properties]

unionType(tgt, types) ==
  [type |-> IF tgt = "flow" THEN "UnionTypeAnnotation" ELSE "TSUnionType",
   types |-> types]

enum(tgt, avro) ==
  unionType(tgt,
    [i \in 1..Len(avro.symbols) |->
       IF tgt = "flow"
       THEN [type |-> "StringLiteralTypeAnnotation", value |-> avro.symbols[i]]
       ELSE [type |-> "TSLiteralType", literal |-> StringLiteral(avro.symbols[i])]])

RECURSIVE transform(_, _, _, _)
transform(tgt, types, wrap, avro) ==
  LET h == handleAvroType(avro) IN
  IF h = "primitive" THEN primitive(tgt, primitiveArg(avro))
  ELSE IF h = "custom" THEN custom(tgt, types, avro.value)
  ELSE IF h = "enum" THEN enum(tgt, avro)
  ELSE IF h = "array" THEN
    LET items == transform(tgt, types, wrap, avro.items) IN
    IF IsError(items) THEN items
    ELSE IF tgt = "flow"
    THEN [type |-> "ArrayTypeAnnotation", elementType |-> items]
    ELSE [type |-> "TSArrayType", elementType |-> items]
  ELSE IF h = "map" THEN
    LET values == transform(tgt, types, wrap, avro.values) IN
    IF IsError(values) THEN values
    ELSE IF tgt = "flow"
    THEN [type |-> "ObjectTypeAnnotation", properties |-> <<>>,
          indexers |-> <<Property([type |-> "StringTypeAnnotation"], values)>>,
          exact |-> FALSE]
    ELSE [type |-> "TSTypeReference", typeName |-> Identifier(<<"R","e","c","o","r","d">>),
          typeParameters |-> <<[type |-> "TSStringKeyword"], values>>]
  ELSE IF h = "record" THEN
    LET fs == [i \in 1..Len(avro.fields) |->
                 transform(tgt, types, wrap, avro.fields[i].type)]
    IN  IF IsError(firstError(fs)) THEN firstError(fs)
        ELSE objectType(tgt,
               [i \in 1..Len(avro.fields) |->
                  Property(StringLiteral(avro.fields[i].name), fs[i])])
  ELSE \* union
    LET n  == Len(avro.branches)
        ts == [i \in 1..n |-> transform(tgt, types, wrap, avro.branches[i])]
        tg == [i \in 1..n |-> tagForUnionBranch(avro.branches[i], wrap)]
        member(i) == IF tg[i].tagged
                     THEN objectType(tgt, <<Property(Identifier(tg[i].tag), ts[i])>>)
                     ELSE ts[i]
        members == [i \in 1..n |-> [tagged |-> tg[i].tagged, ann |-> member(i)]]
        pick(b) == LET sel == SelectSeq(members, LAMBDA m : m.tagged = b)
                   IN  [i \in 1..Len(sel) |-> sel[i].ann]
    IN  IF IsError(firstError(ts)) THEN firstError(ts)
        ELSE unionType(tgt, uniqueByType(pick(FALSE)) \o pick(TRUE))

\* transformer.declaration(name, avroType) inside t.exportNamedDeclaration.
declaration(tgt, types, wrap, name, avro) ==
  LET right == transform(tgt, types, wrap, avro) IN
  IF IsError(right) THEN right
  ELSE [type |-> "ExportNamedDeclaration",
        declaration |->
          [type |-> IF tgt = "flow" THEN "TypeAlias" ELSE "TSTypeAliasDeclaration",
           id |-> Identifier(name), right |-> right]]

\* transformer.alias(identifier, identToBeAliased) inside t.exportNamedDeclaration.
alias(tgt, identifier, identToBeAliased) ==
  [type |-> "ExportNamedDeclaration",
   declaration |->
     [type |-> IF tgt = "flow" THEN "TypeAlias" ELSE "TSTypeAliasDeclaration",
      id |-> Identifier(identifier),
      right |-> IF tgt = "flow"
                THEN [type |-> "GenericTypeAnnotation",
                      id |-> Identifier(identToBeAliased)]
                ELSE [type |-> "TSTypeReference",
                      typeName |-> Identifier(identToBeAliased),
                      typeParameters |-> <<>>]]]

\* Faulty variant: the first element.
getLast_first(arr) == arr[1]

getLast(arr) == arr[Len(arr)]

(***************************************************************************)
(* parseFile after the flattening pass                                     *)
(***************************************************************************)
\* Faulty variant: the last entry is taken off the table (pop).
GetLast_pop ==
  /\ pc = "getLast"
  /\ IF Len(allTypes) = 0
     THEN /\ pc' = "done"
          /\ result' = Failure(emptyArrayMessage)
          /\ UNCHANGED <<last, allTypes>>
     ELSE /\ pc' = "declarations"
          /\ last' = getLast(allTypes)
          /\ allTypes' = Pop(allTypes)
          /\ result' = result
  /\ UNCHANGED <<otherCalls, input, target, wrapPrimitivesOpt, stack, statements>>

\* Faulty variant: no emptiness check.
GetLast_unchecked ==
  /\ pc = "getLast"
  /\ pc' = "declarations"
  /\ last' = IF Len(allTypes) = 0 THEN NoEntry ELSE getLast(allTypes)
  /\ UNCHANGED <<otherCalls, input, target, wrapPrimitivesOpt, stack, allTypes, statements, result>>

\* const last = getLast(context.allTypes)
GetLast ==
  /\ pc = "getLast"
  /\ IF Len(allTypes) = 0
     THEN /\ pc' = "done"
          /\ result' = Failure(emptyArrayMessage)
          /\ last' = last
     ELSE /\ pc' = "declarations"
          /\ last' = getLast(allTypes)
          /\ result' = result
  /\ UNCHANGED <<otherCalls, input, target, wrapPrimitivesOpt, stack, allTypes, statements>>

\* One callback of context.allTypes.map(...): the next entry is rendered.
RenderDeclaration ==
  /\ pc = "declarations"
  /\ Len(statements) < Len(allTypes)
  /\ LET entry == allTypes[Len(statements) + 1]
         d == declaration(target, allTypes, wrapPrimitives, entry.name, entry.type)
     IN  IF IsError(d)
         THEN /\ pc' = "done"
              /\ result' = Failure(d.message)
              /\ statements' = statements
         ELSE /\ statements' = Append(statements, d)
              /\ UNCHANGED <<pc, result>>
  /\ UNCHANGED <<otherCalls, input, target, wrapPrimitivesOpt, stack, allTypes, last>>

\* transformer.alias('__Schema', last[0]) closes the statement list.
RenderAlias ==
  /\ pc = "declarations"
  /\ Len(statements) = Len(allTypes)
  /\ statements' = Append(statements, alias(target, S_Schema, last.name))
  /\ pc' = "generate"
  /\ UNCHANGED <<otherCalls, input, target, wrapPrimitivesOpt, stack, allTypes, last, result>>

\* generate(file).code, behind the '// @flow' pragma for the flow target.
Generate ==
  /\ pc = "generate"
  /\ result' = [status |-> "ok", message |-> <<>>, pragma |-> target = "flow",
                code |-> statements]
  /\ pc' = "done"
  /\ UNCHANGED <<otherCalls, input, target, wrapPrimitivesOpt, stack, allTypes, last, statements>>

(***************************************************************************)
(* Inputs: a family of schemas (union shapes, records, enums, references,  *)
(* bytes) placed at the root or inside up to MaxDepth enclosing fields,    *)
(* arrays, maps and nullable unions.                                       *)
(***************************************************************************)
MaxBranches == 3
MaxDepth == 2

N_R    == <<"R">>
N_T    == <<"T">>
N_E    == <<"E">>
N_intt == <<"i","n","t","t">>
N_Some_name == <<"S","o","m","e"," ","n","a","m","e">>
N_9Enum     == <<"9","E","n","u","m">>
F_age         == <<"a","g","e">>
F_spouse_name == <<"s","p","o","u","s","e","_","n","a","m","e">>
F_some_map    == <<"s","o","m","e","_","m","a","p">>

\* The record declared by the enclosing field of nesting level k.
LevelName(k) == <<UpperCase[k]>>
LevelField(k) == <<"f", LowerCase[k]>>

UnionShapes ==
  UNION {{UnionOf(bs) : bs \in [1..n -> {Str(S_null), Str(S_int)}]} : n \in 0..MaxBranches}

Focus ==
  UnionShapes \cup
  { Str(S_int), Str(S_null), Str(S_bytes), Obj(S_bytes), Obj(S_int),
    Str(N_R), Str(N_intt),
    RecordOf(N_R, <<>>),
    RecordOf(N_Some_name, <<>>),
    EnumOf(N_E, << <<"x">>, <<"y">> >>),
    EnumOf(N_9Enum, <<>>),
    UnionOf(<<Obj(S_null), Str(S_string)>>),
    UnionOf(<<Str(S_string), Str(S_boolean), Str(S_int), Str(S_long),
              Str(S_float), Str(S_double), Str(S_null)>>),
    UnionOf(<<Str(S_int), Str(S_bytes)>>),
    UnionOf(<<Str(S_int), UnionOf(<<Str(S_int), Str(S_string)>>)>>),
    UnionOf(<<RecordOf(N_R, <<Field(F_age, Str(S_int))>>),
              RecordOf(N_T, <<Field(F_age, Str(S_string))>>), Str(S_string)>>),
    UnionOf(<<RecordOf(N_R, <<>>), RecordOf(N_R, <<>>)>>),
    RecordOf(N_R, <<Field(F_age, UnionOf(<<Str(S_null), Str(S_int), Str(S_double)>>)),
                    Field(F_spouse_name, UnionOf(<<Str(S_null), Str(S_string)>>)),
                    Field(F_some_map, MapOf(Str(S_string)))>>),
    RecordOf(N_R, <<Field(F_age, Str(N_T)),
                    Field(F_spouse_name, RecordOf(N_T, <<>>)),
                    Field(F_some_map, ArrayOf(Str(N_T)))>>),
    RecordOf(N_R, <<Field(F_age, Str(N_intt)), Field(F_some_map, Str(S_bytes))>>),
    RecordOf(N_R, <<Field(F_age, EnumOf(N_E, << <<"x">> >>)),
                    Field(F_some_map, Str(N_intt))>>),
    RecordOf(N_R, <<Field(F_age, Str(S_bytes)), Field(F_some_map, Str(N_intt))>>),
    RecordOf(N_R, <<Field(F_age, Str(S_bytes)),
                    Field(F_some_map, EnumOf(N_9Enum, <<>>))>>),
    RecordOf(N_R, <<Field(F_age, Str(N_intt)),
                    Field(F_spouse_name, Str(S_bytes)),
                    Field(F_some_map, EnumOf(N_9Enum, <<>>))>>),
    RecordOf(N_R, <<Field(F_age, Str(<<"R","_","S","o","m","e","M","a","p","_","M","a","p">>)),
                    Field(F_some_map, MapOf(Str(S_string)))>>),
    RecordOf(N_Some_name, <<Field(F_age, EnumOf(N_9Enum, <<>>))>>) }

InField(k, x)  == RecordOf(LevelName(k), <<Field(LevelField(k), x)>>)
InNullable(x)  == UnionOf(<<Str(S_null), x>>)

RECURSIVE Wrapped(_)
Wrapped(k) ==
  IF k = 0 THEN Focus
  ELSE LET inner == Wrapped(k - 1) IN
       {InField(k, x) : x \in inner} \cup {ArrayOf(x) : x \in inner}
       \cup {MapOf(x) : x \in inner} \cup {InNullable(x) : x \in inner}

Inputs == UNION {Wrapped(k) : k \in 0..MaxDepth}

\* parseFile(avscText, options) is called: JSON.parse, new Context, and the
\* outermost call flattenAvroType(avro, [], context).
Init ==
  /\ input \in Inputs
  /\ target \in {"flow", "typescript"}
  /\ wrapPrimitivesOpt \in {"omitted", "true", "false"}
  /\ pc = "flatten"
  /\ stack = <<Frame(input, <<>>)>>
  /\ allTypes = <<>>
  /\ last = NoEntry
  /\ statements = <<>>
  /\ result = Pending
  /\ previous = NoInvocation
  /\ namePath = <<>>
  /\ composed = <<>>

Next ==
  \/ FlattenEnter
  \/ FlattenDescend
  \/ FlattenReturn
  \/ GetLast
  \/ RenderDeclaration
  \/ RenderAlias
  \/ Generate

Spec == Init /\ [][Next]_vars

(***************************************************************************)
(* Two calls in a row.  parseFile keeps nothing between calls: each call   *)
(* parses its text again and builds a new Context, whose allTypes is       *)
(* empty.  `previous` remembers how the preceding call ended.              *)
(***************************************************************************)
TwiceInputs == UNION {Wrapped(k) : k \in 0..(MaxDepth - 1)}

InitTwice ==
  /\ input \in TwiceInputs
  /\ target \in {"flow", "typescript"}
  /\ wrapPrimitivesOpt \in {"omitted", "true", "false"}
  /\ pc = "flatten"
  /\ stack = <<Frame(input, <<>>)>>
  /\ allTypes = <<>>
  /\ last = NoEntry
  /\ statements = <<>>
  /\ result = Pending
  /\ previous = NoInvocation
  /\ namePath = <<>>
  /\ composed = <<>>

\* Faulty variant: one Context shared by all calls.
ParseFileAgain_sharedContext ==
  /\ pc = "done"
  /\ previous' = [status |-> "ended", target |-> target,
                  wrapPrimitivesOpt |-> wrapPrimitivesOpt,
                  allTypes |-> allTypes, result |-> result]
  /\ target' \in {"flow", "typescript"}
  /\ wrapPrimitivesOpt' \in {"omitted", "true", "false"}
  /\ pc' = "flatten"
  /\ stack' = <<Frame(input, <<>>)>>
  /\ allTypes' = allTypes
  /\ last' = NoEntry
  /\ statements' = <<>>
  /\ result' = Pending
  /\ UNCHANGED <<input, namePath, composed>>

\* parseFile is called again on the same text, with any options, after the
\* preceding call has returned or thrown.
ParseFileAgain ==
  /\ pc = "done"
  /\ previous' = [status |-> "ended", target |-> target,
                  wrapPrimitivesOpt |-> wrapPrimitivesOpt,
                  allTypes |-> allTypes, result |-> result]
  /\ target' \in {"flow", "typescript"}
  /\ wrapPrimitivesOpt' \in {"omitted", "true", "false"}
  /\ pc' = "flatten"
  /\ stack' = <<Frame(input, <<>>)>>
  /\ allTypes' = <<>>
  /\ last' = NoEntry
  /\ statements' = <<>>
  /\ result' = Pending
  /\ UNCHANGED <<input, namePath, composed>>

NextTwice ==
  \/ FlattenEnter
  \/ FlattenDescend
  \/ FlattenReturn
  \/ GetLast
  \/ RenderDeclaration
  \/ RenderAlias
  \/ Generate
  \/ ParseFileAgain

SpecTwice == InitTwice /\ [][NextTwice]_vars

(***************************************************************************)
(* Flattening the output again.  After a call has returned its output, the *)
(* type of one entry of its table is handed to parseFile as a schema of    *)
(* its own (same options, new Context); `previous` remembers the entry.    *)
(***************************************************************************)
FlattenEntryAgain ==
  /\ pc = "done"
  /\ result.status = "ok"
  /\ previous = NoInvocation
  /\ \E i \in 1..Len(allTypes) :
       /\ previous' = [status |-> "entry", entry |-> allTypes[i],
                       allTypes |-> allTypes, result |-> result]
       /\ input' = allTypes[i].type
       /\ stack' = <<Frame(allTypes[i].type, <<>>)>>
  /\ pc' = "flatten"
  /\ allTypes' = <<>>
  /\ last' = NoEntry
  /\ statements' = <<>>
  /\ result' = Pending
  /\ UNCHANGED <<target, wrapPrimitivesOpt, namePath, composed>>

NextAgain ==
  \/ FlattenEnter
  \/ FlattenDescend
  \/ FlattenReturn
  \/ GetLast
  \/ RenderDeclaration
  \/ RenderAlias
  \/ Generate
  \/ FlattenEntryAgain

SpecAgain == Init /\ [][NextAgain]_vars

(***************************************************************************)
(* createTypeName on its own: called on the naming paths written with up   *)
(* to MaxPathChars characters (a lower-case letter, an upper-case letter,  *)
(* the underscore, the space, and "/" between two segments).               *)
(***************************************************************************)
MaxPathChars == 5

PathChars == {"a", "B", "_", " ", "/"}
NamePaths ==
  UNION {{split(raw, "/") : raw \in [1..n -> PathChars]} : n \in 0..MaxPathChars}

InitNames ==
  /\ namePath \in NamePaths
  /\ composed = <<>>
  /\ pc = "compose"
  /\ input = Str(<<>>)
  /\ target = "flow"
  /\ wrapPrimitivesOpt = "omitted"
  /\ stack = <<>>
  /\ allTypes = <<>>
  /\ last = NoEntry
  /\ statements = <<>>
  /\ result = Pending
  /\ previous = NoInvocation

\* createTypeName(names) is called and returns.
ComposeName ==
  /\ pc = "compose"
  /\ composed' = createTypeName(namePath)
  /\ pc' = "composed"
  /\ UNCHANGED <<namePath, previous, input, target, wrapPrimitivesOpt, stack,
                 allTypes, last, statements, result>>

SpecNames == InitNames /\ [][ComposeName]_vars

(***************************************************************************)
(* Properties                                                              *)
(***************************************************************************)
TableNames == [i \in 1..Len(allTypes) |-> allTypes[i].name]
FlattenDone == pc \in {"getLast", "declarations", "generate"} \/ result.status = "ok"

\* A union flattener is about to return: all its branches are flattened.
UnionReturning ==
  /\ pc = "flatten"
  /\ Top.entered
  /\ Top.node.kind = "union"
  /\ Top.idx > Len(Top.node.branches)

IsNullPrimitive(b) ==
  \/ b.kind = "string" /\ b.value = S_null
  \/ b.kind = "object" /\ b.type = S_null

\* The inlining rule as the specification states it, on the raw input union.
InliningRule ==
  /\ Top.names # <<>>
  /\ Len(Top.node.branches) = 2
  /\ \E i \in 1..Len(Top.node.branches) : IsNullPrimitive(Top.node.branches[i])

\* The value the returning call hands to its caller is v (the value of the
\* outermost call is dropped).
ReturnsToCaller(v) ==
  Len(stack) > 1 =>
    /\ Len(stack') = Len(stack) - 1
    /\ stack'[Len(stack')].acc = Append(stack[Len(stack) - 1].acc, v)

\* C1: a union is inlined (its flattened branch list is returned in place and
\* no table entry is added) if and only if the naming path is non-empty, the
\* input union has exactly two branches and one of them is the null primitive;
\* this holds for both targets and every value of wrapPrimitives.
C1_InlinedIffRule ==
  [][UnionReturning =>
       ((allTypes' = allTypes /\ ReturnsToCaller(UnionOf(Top.acc))) <=> InliningRule)]_vars

C1_Witness ==
  /\ pc = "flatten"
  /\ stack # <<>>
  /\ Top.acc # <<>>
  /\ Top.acc[Len(Top.acc)].kind = "union"
  /\ Len(Top.acc[Len(Top.acc)].branches) = 2
  /\ wrapPrimitivesOpt = "false"
  /\ target = "typescript"

\* C2: a union that is not inlined is registered exactly once, under
\* composeName(namingPath) for a non-empty path and under "Union" for the
\* empty path, and that name is returned as the reference at its use site.
C2_RegisteredUnderName ==
  [][(UnionReturning /\ ~InliningRule) =>
       LET name == IF Top.names = <<>> THEN S_Union ELSE createTypeName(Top.names) IN
       /\ allTypes' = Append(allTypes, [name |-> name, type |-> UnionOf(Top.acc)])
       /\ ReturnsToCaller(Str(name))]_vars

C2_Witness ==
  /\ FlattenDone
  /\ \E i, j \in 1..Len(allTypes) :
       /\ allTypes[i].type.kind = "union" /\ allTypes[i].name # S_Union
       /\ allTypes[j].type.kind = "union" /\ allTypes[j].name = S_Union

\* The names a post-order walk of the input registers: the children's names
\* in input order, then the node's own name if it registers one.
RECURSIVE PostOrderNames(_, _)
PostOrderNames(avro, names) ==
  LET cs == children(avro)
      RECURSIVE below(_)
      below(i) == IF i > Len(cs) THEN <<>>
                  ELSE PostOrderNames(cs[i], childNames(avro, names, i)) \o below(i + 1)
      own == IF avro.kind \in {"record", "enum"} THEN <<avro.name>>
             ELSE IF avro.kind = "map" THEN <<createTypeName(names \o <<S_Map>>)>>
             ELSE IF avro.kind = "union" /\ ~shouldInline(avro, names)
                  THEN <<unionTypeName(names)>>
             ELSE <<>>
  IN  below(1) \o own

IsPrefix(s, t) == Len(s) <= Len(t) /\ SubSeq(t, 1, Len(s)) = s

\* C3: registration is post-order: at every moment the table holds a prefix
\* of the post-order walk of the input (children before their parent, siblings
\* in input order), and the whole walk once flattening has completed.
C3_PostOrder ==
  /\ IsPrefix(TableNames, PostOrderNames(input, <<>>))
  /\ FlattenDone => TableNames = PostOrderNames(input, <<>>)

C3_Witness ==
  /\ pc = "getLast"
  /\ Len(allTypes) >= 5
  /\ input.kind = "record"
  /\ \E i \in 1..Len(allTypes) : allTypes[i].type.kind = "map"

\* The name under which the root node itself is registered, if it is.
RootRegisters ==
  \/ input.kind \in {"record", "enum", "map"}
  \/ input.kind = "union"
RootName ==
  IF input.kind \in {"record", "enum"} THEN input.name
  ELSE IF input.kind = "map" THEN S_Map
  ELSE S_Union

\* C4: after flattening an input that yields a non-empty table, the last
\* entry of the table is the root schema's own declaration.
C4_LastIsRoot ==
  (FlattenDone /\ allTypes # <<>>) =>
     /\ RootRegisters
     /\ allTypes[Len(allTypes)].name = RootName

AliasTarget(stmt) ==
  IF target = "flow" THEN stmt.declaration.right.id.name
  ELSE stmt.declaration.right.typeName.name

\* C5: on success the output is one exported declaration per table entry, in
\* table order and under the entry's name, followed by exactly one exported
\* alias __Schema of the last entry's name, for both targets.
C5_OutputShape ==
  result.status = "ok" =>
    LET n == Len(allTypes) IN
    /\ n >= 1
    /\ Len(result.code) = n + 1
    /\ \A i \in 1..n :
         /\ result.code[i].type = "ExportNamedDeclaration"
         /\ result.code[i].declaration.id = Identifier(allTypes[i].name)
         /\ result.code[i].declaration.right =
              transform(target, allTypes, wrapPrimitives, allTypes[i].type)
    /\ result.code[n + 1].type = "ExportNamedDeclaration"
    /\ result.code[n + 1].declaration.id = Identifier(S_Schema)
    /\ AliasTarget(result.code[n + 1]) = allTypes[n].name

C5_Witness ==
  /\ result.status = "ok"
  /\ Len(allTypes) >= 3
  /\ Len(result.code) = Len(allTypes) + 1
  /\ target = "typescript"

\* C6: names in the table are unique: an invocation never succeeds with two
\* table entries of the same name.
C6_UniqueNames ==
  result.status = "ok" =>
    \A i, j \in 1..Len(allTypes) : i # j => allTypes[i].name # allTypes[j].name

\* ^[A-Za-z_][A-Za-z0-9_]*$
MatchesNameRegex(raw) ==
  /\ raw # <<>>
  /\ Head(raw) \in Letters \cup {"_"}
  /\ \A i \in 1..Len(raw) : raw[i] \in Letters \cup Digits \cup {"_"}

\* A record or enum flattener is being entered.
NamedEntering ==
  /\ pc = "flatten"
  /\ ~Top.entered
  /\ Top.node.kind \in {"record", "enum"}

\* C7: every record and enum reached by flattening has its declared name
\* validated: flattening proceeds if the name matches the identifier regex and
\* the invocation fails with "'<raw>' is not a valid avro name" if it does not
\* (so for every name with a space or a leading digit), for both targets.
C7_NameValidated ==
  [][NamedEntering =>
       LET raw == Top.node.name IN
       /\ MatchesNameRegex(raw) =>
            pc' = "flatten" /\ result' = Pending /\ stack'[Len(stack')].entered
       /\ ~MatchesNameRegex(raw) =>
            /\ pc' = "done"
            /\ result'.status = "error"
            /\ result'.message = <<"'">> \o raw \o <<"' is not a valid avro name">>
       /\ ((\E i \in 1..Len(raw) : raw[i] = " ") \/ (raw # <<>> /\ raw[1] \in Digits))
            => result'.status = "error"]_vars

C7_Witness ==
  /\ pc = "done"
  /\ result.status = "error"
  /\ result.message = <<"'">> \o N_9Enum \o <<"' is not a valid avro name">>
  /\ input.kind = "record"
  /\ allTypes = <<>>

\* The custom references (non-primitive strings) occurring in a node.
RECURSIVE CustomRefs(_)
CustomRefs(avro) ==
  IF avro.kind = "string"
  THEN IF avro.value \in AllAvroPrimitiveTypes THEN {} ELSE {avro.value}
  ELSE LET cs == children(avro) IN UNION {CustomRefs(cs[i]) : i \in 1..Len(cs)}

Reference(name) ==
  IF target = "flow"
  THEN [type |-> "GenericTypeAnnotation", id |-> Identifier(name)]
  ELSE [type |-> "TSTypeReference", typeName |-> Identifier(name), typeParameters |-> <<>>]

\* C8: rendering a custom reference absent from the table fails with
\* "<name> is not a valid custom type name."; one that is present renders as a
\* reference to that name; hence no invocation succeeds with an absent
\* reference in a table entry.  For both targets.
C8_CustomReference ==
  /\ pc = "declarations" =>
       \A n \in CustomRefs(input) \cup {TableNames[i] : i \in 1..Len(allTypes)} :
         ~(n \in AllAvroPrimitiveTypes) =>
           transform(target, allTypes, wrapPrimitives, Str(n)) =
             IF \E i \in 1..Len(allTypes) : allTypes[i].name = n
             THEN Reference(n)
             ELSE Error(n \o <<" is not a valid custom type name.">>)
  /\ result.status = "ok" =>
       \A i \in 1..Len(allTypes) :
         \A n \in CustomRefs(allTypes[i].type) :
           \E j \in 1..Len(allTypes) : allTypes[j].name = n

C8_Witness ==
  /\ pc = "done"
  /\ result.status = "error"
  /\ result.message = N_intt \o <<" is not a valid custom type name.">>
  /\ statements # <<>>

RECURSIVE ContainsBytes(_)
ContainsBytes(avro) ==
  \/ avro.kind = "string" /\ avro.value = S_bytes
  \/ avro.kind = "object" /\ avro.type = S_bytes
  \/ LET cs == children(avro) IN \E i \in 1..Len(cs) : ContainsBytes(cs[i])

RECURSIVE AllNamesMatch(_)
AllNamesMatch(avro) ==
  /\ avro.kind \in {"record", "enum"} => MatchesNameRegex(avro.name)
  /\ LET cs == children(avro) IN \A i \in 1..Len(cs) : AllNamesMatch(cs[i])

C10_EmptyTableFails ==
  /\ [](result.status = "ok" => allTypes # <<>>)
  /\ []((pc # "flatten" /\ allTypes = <<>>) => statements = <<>>)
  /\ [][(pc = "getLast" /\ allTypes = <<>>) =>
          /\ pc' = "done"
          /\ result'.status = "error"
          /\ result'.message = <<"Cannot get last of empty array">>
          /\ result'.code = <<>>
          /\ statements' = <<>>]_vars

C10_Witness ==
  /\ pc = "done"
  /\ allTypes = <<>>
  /\ input.kind = "array"
  /\ result.status = "error"
  /\ result.message = <<"Cannot get last of empty array">>

\* C11: an empty top-level union (the input []) is rejected with the
\* empty-document error: flattening it registers no declaration and the
\* invocation fails instead of returning output.
C11_EmptyUnionRejected ==
  (pc = "done" /\ input = UnionOf(<<>>)) =>
    /\ allTypes = <<>>
    /\ result.status = "error"
    /\ result.message = emptyArrayMessage
    /\ result.code = <<>>

\* The unions of the returned output: every union node of a table entry that
\* is reached through records, arrays and maps, paired with the annotation
\* rendered for it in the returned statements.
RECURSIVE RenderedPairs(_, _)
RenderedPairs(node, ann) ==
  IF node.kind = "union" THEN {[node |-> node, ann |-> ann]}
  ELSE IF node.kind = "array" THEN RenderedPairs(node.items, ann.elementType)
  ELSE IF node.kind = "map"
  THEN RenderedPairs(node.values,
                     IF target = "flow" THEN ann.indexers[1].value
                     ELSE ann.typeParameters[2])
  ELSE IF node.kind = "record"
  THEN LET props == IF target = "flow" THEN ann.properties ELSE ann.members IN
       UNION {RenderedPairs(node.fields[j].type, props[j].value) :
                j \in 1..Len(node.fields)}
  ELSE {}

OutputUnions ==
  UNION {RenderedPairs(allTypes[i].type, result.code[i].declaration.right) :
           i \in 1..Len(allTypes)}

\* Every union node of a table entry, those nested in union branches included.
RECURSIVE UnionsIn(_)
UnionsIn(node) ==
  IF node.kind = "union"
  THEN {node} \cup UNION {UnionsIn(node.branches[i]) : i \in 1..Len(node.branches)}
  ELSE IF node.kind = "array" THEN UnionsIn(node.items)
  ELSE IF node.kind = "map" THEN UnionsIn(node.values)
  ELSE IF node.kind = "record"
  THEN UNION {UnionsIn(node.fields[j].type) : j \in 1..Len(node.fields)}
  ELSE {}

TableUnions == UNION {UnionsIn(allTypes[i].type) : i \in 1..Len(allTypes)}

\* Reading a rendered annotation back, for either target.
AnnKind(ann) ==
  IF ann.type \in {"NullLiteralTypeAnnotation", "TSNullKeyword"} THEN "null"
  ELSE IF ann.type \in {"BooleanTypeAnnotation", "TSBooleanKeyword"} THEN "boolean"
  ELSE IF ann.type \in {"NumberTypeAnnotation", "TSNumberKeyword"} THEN "number"
  ELSE IF ann.type \in {"StringTypeAnnotation", "TSStringKeyword"} THEN "string"
  ELSE IF ann.type \in {"ObjectTypeAnnotation", "TSTypeLiteral"} THEN "object"
  ELSE "other"

Members(ann) == IF ann.type = "ObjectTypeAnnotation" THEN ann.properties ELSE ann.members

\* A single-field object {tag: value}.
IsTaggedMember(m) ==
  /\ m.type \in {"ObjectTypeAnnotation", "TSTypeLiteral"}
  /\ Len(Members(m)) = 1
  /\ Members(m)[1].key.type = "Identifier"
TagOf(m) == Members(m)[1].key.name
ValueOf(m) == Members(m)[1].value

\* The output type of each primitive keyword, as the specification lists it.
PrimitiveKind(keyword) ==
  IF keyword = S_null THEN "null"
  ELSE IF keyword = S_boolean THEN "boolean"
  ELSE IF keyword = S_string THEN "string"
  ELSE "number"

IsPrimitiveBranch(b) ==
  \/ b.kind = "string" /\ b.value \in {S_null, S_boolean, S_int, S_long, S_float, S_double, S_string}
  \/ b.kind = "object" /\ b.type \in {S_null, S_boolean, S_int, S_long, S_float, S_double, S_string}
KeywordOf(b) == IF b.kind = "string" THEN b.value ELSE b.type

\* The option as the caller gave it: wrapping unless it is given as false.
WrappingRequested == wrapPrimitivesOpt \in {"omitted", "true"}

PrimitiveBranchesTagged(node, ann) ==
  \A i \in 1..Len(node.branches) :
    LET b == node.branches[i] IN
    IsPrimitiveBranch(b) =>
      LET kw == KeywordOf(b)
          ms == {ann.types[k] : k \in 1..Len(ann.types)}
      IN  IF WrappingRequested /\ kw # S_null
          THEN /\ \E m \in ms : /\ IsTaggedMember(m)
                                /\ TagOf(m) = kw
                                /\ AnnKind(ValueOf(m)) = PrimitiveKind(kw)
               /\ \A m \in ms : AnnKind(m) # PrimitiveKind(kw)
          ELSE /\ \E m \in ms : AnnKind(m) = PrimitiveKind(kw)
               /\ \A m \in ms : IsTaggedMember(m) => TagOf(m) # kw

\* C12: primitive union branches are tagged according to wrapPrimitives: with
\* wrapping (the option true or omitted) every non-null primitive branch is
\* rendered as a single-field object keyed by the primitive's keyword whose
\* value is the rendered primitive, and null is rendered bare; without
\* wrapping every primitive branch is rendered bare, with no tag.
C12_PrimitiveTagging ==
  result.status = "ok" =>
    /\ \A p \in OutputUnions : PrimitiveBranchesTagged(p.node, p.ann)
    /\ \A u \in TableUnions :
         PrimitiveBranchesTagged(u, transform(target, allTypes, WrappingRequested, u))

C12_Witness ==
  /\ result.status = "ok"
  /\ wrapPrimitivesOpt = "omitted"
  /\ \E p \in OutputUnions :
       /\ \E k \in 1..Len(p.ann.types) :
            IsTaggedMember(p.ann.types[k]) /\ TagOf(p.ann.types[k]) = S_long
       /\ \E k \in 1..Len(p.ann.types) : AnnKind(p.ann.types[k]) = "null"

\* The tag the specification gives a union branch of the input.
ExpectedTag(b) ==
  IF IsPrimitiveBranch(b) THEN KeywordOf(b)
  ELSE IF b.kind \in {"record", "enum"} THEN b.name
  ELSE IF b.kind = "string" THEN b.value
  ELSE IF b.kind = "array" THEN S_array
  ELSE IF b.kind = "map" THEN S_map
  ELSE S_union

IsTaglessBranch(b) ==
  IsPrimitiveBranch(b) /\ (KeywordOf(b) = S_null \/ ~WrappingRequested)

\* C13: in a materialized union of the output, a non-primitive branch is
\* wrapped in a single-field object whose key is the declared name for a
\* record, enum or custom-reference branch, "array" for an array branch, "map"
\* for a map branch and "union" for a nested-union branch.  Stated for the
\* union at the root of the input, which is always materialized as the last
\* entry: its tagged members carry, in input order, the tags of its branches.
C13_BranchTags ==
  (result.status = "ok" /\ input.kind = "union") =>
    LET ann    == result.code[Len(allTypes)].declaration.right
        tagged == SelectSeq(ann.types, IsTaggedMember)
        wanted == SelectSeq(input.branches, LAMBDA b : ~IsTaglessBranch(b))
    IN  /\ Len(tagged) = Len(wanted)
        /\ \A k \in 1..Len(wanted) : TagOf(tagged[k]) = ExpectedTag(wanted[k])

\* The elements of a sequence in the order of their first occurrence.
RECURSIVE FirstSeen(_)
FirstSeen(s) ==
  IF s = <<>> THEN <<>>
  ELSE <<Head(s)>> \o FirstSeen(SelectSeq(Tail(s), LAMBDA x : x # Head(s)))

\* ann lists the tagless branches of node once per rendered type, in
\* first-seen order, and then one tagged member per other branch, in the
\* order of the branches.
BranchListOrdered(node, ann) ==
  LET tagless == SelectSeq(node.branches, IsTaglessBranch)
      kinds   == FirstSeen([i \in 1..Len(tagless) |-> PrimitiveKind(KeywordOf(tagless[i]))])
      tagged  == SelectSeq(node.branches, LAMBDA b : ~IsTaglessBranch(b))
  IN  /\ Len(ann.types) = Len(kinds) + Len(tagged)
      /\ \A k \in 1..Len(kinds) :
           ~IsTaggedMember(ann.types[k]) /\ AnnKind(ann.types[k]) = kinds[k]
      /\ \A k \in 1..Len(tagged) :
           LET m == ann.types[Len(kinds) + k] IN
           /\ IsTaggedMember(m)
           /\ TagOf(m) = ExpectedTag(tagged[k])
           /\ ValueOf(m) = transform(target, allTypes, WrappingRequested, tagged[k])

\* C14: the branch list of every rendered union is the tagless branches
\* deduplicated by rendered type, in first-seen order, followed by all tagged
\* branches in their input order; tagged branches are neither deduplicated
\* nor reordered, and every tagless branch precedes every tagged one
\* whatever its input position.
C14_BranchOrder ==
  result.status = "ok" =>
    /\ \A p \in OutputUnions : BranchListOrdered(p.node, p.ann)
    /\ \A u \in TableUnions :
         BranchListOrdered(u, transform(target, allTypes, WrappingRequested, u))

C14_Witness ==
  /\ result.status = "ok"
  /\ WrappingRequested
  /\ \E p \in OutputUnions :
       /\ Len(p.node.branches) = 3
       /\ ~IsTaglessBranch(p.node.branches[1])
       /\ IsTaglessBranch(p.node.branches[2]) /\ IsTaglessBranch(p.node.branches[3])
       /\ Len(p.ann.types) = 2
       /\ AnnKind(p.ann.types[1]) = "null"
       /\ IsTaggedMember(p.ann.types[2])

\* The structure of a rendered type, with the syntax of the target erased:
\* referenced names, field names and tags in order, union members in order.
RECURSIVE Structure(_)
Structure(ann) ==
  IF AnnKind(ann) \in {"null", "boolean", "number", "string"}
  THEN [k |-> AnnKind(ann)]
  ELSE IF ann.type = "ObjectTypeAnnotation" /\ ann.indexers # <<>>
  THEN [k |-> "map", of |-> Structure(ann.indexers[1].value)]
  ELSE IF ann.type = "TSTypeReference" /\ ann.typeParameters # <<>>
  THEN [k |-> "map", of |-> Structure(ann.typeParameters[2])]
  ELSE IF ann.type \in {"ObjectTypeAnnotation", "TSTypeLiteral"}
  THEN [k |-> "object",
        fields |-> [i \in 1..Len(Members(ann)) |->
                      [key |-> Members(ann)[i].key,
                       value |-> Structure(Members(ann)[i].value)]]]
  ELSE IF ann.type = "GenericTypeAnnotation" THEN [k |-> "ref", name |-> ann.id.name]
  ELSE IF ann.type = "TSTypeReference" THEN [k |-> "ref", name |-> ann.typeName.name]
  ELSE IF ann.type \in {"UnionTypeAnnotation", "TSUnionType"}
  THEN [k |-> "union", types |-> [i \in 1..Len(ann.types) |-> Structure(ann.types[i])]]
  ELSE IF ann.type \in {"ArrayTypeAnnotation", "TSArrayType"}
  THEN [k |-> "array", of |-> Structure(ann.elementType)]
  ELSE IF ann.type = "StringLiteralTypeAnnotation" THEN [k |-> "literal", value |-> ann.value]
  ELSE IF ann.type = "TSLiteralType" THEN [k |-> "literal", value |-> ann.literal.value]
  ELSE [k |-> "other", type |-> ann.type]

\* The declared names of an output and the structure of what each declares;
\* the last statement is the __Schema alias and its structure is its target.
OutputStructure(code) ==
  [i \in 1..Len(code) |->
     [name |-> code[i].declaration.id.name,
      right |-> Structure(code[i].declaration.right)]]

SameOutcome(r1, r2) ==
  \/ /\ r1.status = "error"
     /\ r2.status = "error"
     /\ r1.message = r2.message
  \/ /\ r1.status = "ok"
     /\ r2.status = "ok"
     /\ OutputStructure(r1.code) = OutputStructure(r2.code)

\* C15: for every input schema and every value of wrapPrimitives, the flow
\* and the typescript target either both fail with the same error message or
\* both succeed with structurally equivalent output: the same declared names
\* in the same order, the same field names in order in each record, the same
\* union branch tags in order and the same __Schema alias target.
C15_TargetsAgree ==
  (/\ pc = "done"
   /\ previous.status = "ended"
   /\ previous.target # target
   /\ previous.wrapPrimitivesOpt = wrapPrimitivesOpt)
  => SameOutcome(previous.result, result)

C15_Witness ==
  /\ pc = "done"
  /\ previous.status = "ended"
  /\ previous.target = "flow"
  /\ target = "typescript"
  /\ previous.wrapPrimitivesOpt = "false"
  /\ wrapPrimitivesOpt = "false"
  /\ result.status = "ok"
  /\ previous.result.status = "ok"
  /\ Len(result.code) >= 4
  /\ \E p \in OutputUnions : Len(p.node.branches) = 3
  /\ \E i \in 1..Len(allTypes) : allTypes[i].type.kind = "map"

\* The reference of the specification for one segment: underscores are
\* dropped, and the first character and every character that follows an
\* underscore are upper-cased; all other characters are kept.
RECURSIVE ReferenceSegment(_, _)
ReferenceSegment(s, capitalise) ==
  IF s = <<>> THEN <<>>
  ELSE IF Head(s) = "_" THEN ReferenceSegment(Tail(s), TRUE)
  ELSE <<IF capitalise THEN toUpperCase(Head(s)) ELSE Head(s)>>
         \o ReferenceSegment(Tail(s), FALSE)

RECURSIVE ReferenceName(_)
ReferenceName(path) ==
  IF path = <<>> THEN <<>>
  ELSE IF Len(path) = 1 THEN ReferenceSegment(path[1], TRUE)
  ELSE ReferenceSegment(path[1], TRUE) \o <<"_">> \o ReferenceName(Tail(path))

\* s with its first space turned into c (dropped when c is the empty string).
RECURSIVE FirstSpace(_, _)
FirstSpace(s, c) ==
  IF s = <<>> THEN <<>>
  ELSE IF Head(s) = " " THEN c \o Tail(s)
  ELSE <<Head(s)>> \o FirstSpace(Tail(s), c)

RECURSIVE SpaceAwareName(_)
SpaceAwareName(path) ==
  LET seg == FirstSpace(ReferenceSegment(FirstSpace(path[1], <<"_">>), TRUE), <<>>) IN
  IF path = <<>> THEN <<>>
  ELSE IF Len(path) = 1 THEN seg
  ELSE seg \o <<"_">> \o SpaceAwareName(Tail(path))

\* C16 as stated: composeName(pathSegments) equals the reference, in which
\* only the underscore separates sub-tokens and every other character is
\* kept.
C16_EqualsReference ==
  pc = "composed" => composed = ReferenceName(namePath)

\* C16, amended: composeName(pathSegments) equals the reference applied to
\* the segments with their first space turned into an underscore, with the
\* first space that is left in each composed segment deleted; for segments
\* without spaces this is the reference itself.
C16_EqualsSpaceAwareReference ==
  pc = "composed" =>
    /\ composed = SpaceAwareName(namePath)
    /\ (\A i \in 1..Len(namePath) : \A j \in 1..Len(namePath[i]) : namePath[i][j] # " ")
         => composed = ReferenceName(namePath)

C16_Witness ==
  /\ pc = "composed"
  /\ namePath = << <<"a", " ", "a">>, <<"B">> >>
  /\ composed = <<"A", "A", "_", "B">>

\* The record flattener is about to flatten the type of its next field.
RecordDescending ==
  /\ pc = "flatten"
  /\ Top.entered
  /\ Top.node.kind = "record"
  /\ Top.idx <= Len(Top.node.fields)

\* The call being made for that field has naming path names.
FieldFlattenedUnder(names) ==
  /\ Len(stack') = Len(stack) + 1
  /\ stack'[Len(stack')].node = Top.node.fields[Top.idx].type
  /\ stack'[Len(stack')].names = names

\* A union or map that is the type of a record's field registers an entry.
FieldTypeRegistering ==
  /\ pc = "flatten"
  /\ Len(stack) >= 2
  /\ stack[Len(stack) - 1].node.kind = "record"
  /\ Top.node.kind \in {"union", "map"}
  /\ Top.entered
  /\ Top.idx > Len(children(Top.node))
  /\ allTypes' # allTypes

\* C17 as stated: when a record named R is flattened under naming path P,
\* the type of each field f is flattened with naming path P ++ [R, f].
C17_FieldPathExtendsParent ==
  [][RecordDescending =>
       FieldFlattenedUnder(Top.names \o <<Top.node.name, Top.node.fields[Top.idx].name>>)]_vars

\* C17, amended: when a record named R is flattened under naming path P, the
\* type of each field f is flattened with naming path [R, f], whatever P is;
\* hence an anonymous union or map that is the type of field f of R is
\* registered under the name composed from R and f alone (and "Map"), also
\* when R is nested in another record's field.
C17_FieldPathFromRecord ==
  /\ [][RecordDescending =>
          FieldFlattenedUnder(<<Top.node.name, Top.node.fields[Top.idx].name>>)]_vars
  /\ [][FieldTypeRegistering =>
          LET R == stack[Len(stack) - 1].node
              f == R.fields[stack[Len(stack) - 1].idx].name
          IN  allTypes'[Len(allTypes')].name =
                createTypeName(<<R.name, f>> \o
                               (IF Top.node.kind = "map" THEN <<S_Map>> ELSE <<>>))]_vars

C17_Witness ==
  /\ FlattenDone
  /\ input.kind = "record"
  /\ input.fields # <<>>
  /\ input.fields[1].type.kind = "record"
  /\ input.fields[1].type.fields # <<>>
  /\ input.fields[1].type.fields[1].type.kind = "union"
  /\ Len(input.fields[1].type.fields[1].type.branches) = 3
  /\ allTypes # <<>>
  /\ allTypes[1].type.kind = "union"
  /\ allTypes[1].name = createTypeName(<<input.fields[1].type.name,
                                         input.fields[1].type.fields[1].name>>)

\* The flattener of a node of the given kind is about to flatten its only
\* child (the values of a map, the items of an array), or has flattened it
\* and is about to return.
Descending(kind) ==
  /\ pc = "flatten"
  /\ Top.entered
  /\ Top.node.kind = kind
  /\ Top.idx = 1

Returning(kind) ==
  /\ pc = "flatten"
  /\ Top.entered
  /\ Top.node.kind = kind
  /\ Top.idx = 2

\* The call being made flattens child under the naming path of the caller.
FlattenedUnderSamePath(child) ==
  /\ Len(stack') = Len(stack) + 1
  /\ stack'[Len(stack')].node = child
  /\ stack'[Len(stack')].names = Top.names

\* C18: every map is promoted, never inlined: flattening a map under naming
\* path P flattens its values with the same path P, registers exactly one
\* entry, named composeName(P ++ ["Map"]) and holding the map rebuilt with
\* the flattened values, and returns that name in place of the map.
C18_MapPromoted ==
  /\ [][Descending("map") => FlattenedUnderSamePath(Top.node.values)]_vars
  /\ [][Returning("map") =>
          LET name == createTypeName(Top.names \o <<S_Map>>) IN
          /\ allTypes' = Append(allTypes, [name |-> name, type |-> MapOf(Top.acc[1])])
          /\ ReturnsToCaller(Str(name))]_vars

C18_Witness ==
  /\ FlattenDone
  /\ \E i, j \in 1..Len(allTypes) :
       LET name == <<"R","_","S","o","m","e","M","a","p","_","M","a","p">> IN
       /\ allTypes[i].name = name
       /\ allTypes[i].type = MapOf(Str(S_string))
       /\ allTypes[j].name = N_R
       /\ allTypes[j].type.kind = "record"
       /\ Len(allTypes[j].type.fields) = 3
       /\ allTypes[j].type.fields[3] = Field(F_some_map, Str(name))

\* C19: flattening an array never registers an entry for the array itself
\* and never extends the naming path: the items are flattened with the
\* array's own naming path and the result is an array node wrapping the
\* flattened items, left in place at its use site.
C19_ArrayStructural ==
  /\ [][Descending("array") => FlattenedUnderSamePath(Top.node.items)]_vars
  /\ [][Returning("array") =>
          /\ allTypes' = allTypes
          /\ ReturnsToCaller(ArrayOf(Top.acc[1]))]_vars

C19_Witness ==
  /\ FlattenDone
  /\ input.kind = "record"
  /\ input.fields # <<>>
  /\ input.fields[1].type.kind = "array"
  /\ input.fields[1].type.items.kind = "union"
  /\ Len(input.fields[1].type.items.branches) = 3
  /\ Len(allTypes) = 2
  /\ allTypes[1].name = createTypeName(<<input.name, input.fields[1].name>>)
  /\ allTypes[2].type = RecordOf(input.name,
                                 <<Field(input.fields[1].name, ArrayOf(Str(allTypes[1].name)))>>)

\* C20: flattening is deterministic: two calls on the same input schema,
\* with any options, produce tables with the same entries in the same
\* order, and nothing of the earlier call influences the later one: the
\* later call starts from an empty table and builds, entry by entry, the
\* table the earlier call built.
C20_Deterministic ==
  previous.status = "ended" =>
    /\ pc = "flatten" => IsPrefix(allTypes, previous.allTypes)
    /\ pc # "flatten" => allTypes = previous.allTypes

C20_Witness ==
  /\ previous.status = "ended"
  /\ pc = "done"
  /\ previous.target # target
  /\ previous.wrapPrimitivesOpt = "false"
  /\ wrapPrimitivesOpt = "omitted"
  /\ Len(allTypes) >= 3
  /\ allTypes = previous.allTypes

\* C24: the table is append-only while flattening and read-only afterwards:
\* a flattening step leaves it unchanged or appends exactly one entry at
\* its end (none is removed, replaced or reordered), and no later step
\* (getLast, declaration, alias, the custom-reference lookup) changes it.
C24_AppendOnly ==
  [][/\ pc = "flatten" =>
          \/ allTypes' = allTypes
          \/ /\ Len(allTypes') = Len(allTypes) + 1
             /\ SubSeq(allTypes', 1, Len(allTypes)) = allTypes
     /\ pc # "flatten" => allTypes' = allTypes]_vars

C24_Witness ==
  /\ pc = "done"
  /\ result.status = "ok"
  /\ Len(allTypes) >= 3
  /\ Len(statements) = Len(allTypes) + 1
  /\ \E i \in 1..Len(allTypes) : allTypes[i].type.kind = "record"
                                   /\ \E j \in 1..Len(allTypes[i].type.fields) :
                                        allTypes[i].type.fields[j].type.kind = "string"
                                        /\ isValidCustomType(allTypes, allTypes[i].type.fields[j].type.value)

\* C21 as stated: flattening is idempotent on its output: flattening again
\* an entry of the table, whose nested complex types are name references,
\* produces that entry, under the same name and with the same type.
C21_Idempotent ==
  (previous.status = "entry" /\ pc # "flatten") => allTypes = <<previous.entry>>

\* C21, amended: flattening again a record or enum entry of the table
\* produces exactly that entry (same name, same type) and nothing else.
C21_IdempotentOnNamed ==
  (/\ previous.status = "entry"
   /\ previous.entry.type.kind \in {"record", "enum"}
   /\ pc # "flatten")
  => allTypes = <<previous.entry>>

C21_Witness ==
  /\ previous.status = "entry"
  /\ pc = "done"
  /\ Len(previous.allTypes) >= 3
  /\ previous.entry.type.kind = "record"
  /\ Len(previous.entry.type.fields) = 3
  /\ previous.entry.type.fields[2].type.kind = "union"
  /\ allTypes = <<previous.entry>>

\* The declared names of the records and enums of a schema, one per
\* declaration.
RECURSIVE DeclaredNames(_)
DeclaredNames(avro) ==
  LET cs == children(avro)
      RECURSIVE below(_)
      below(i) == IF i > Len(cs) THEN <<>> ELSE DeclaredNames(cs[i]) \o below(i + 1)
  IN  (IF avro.kind \in {"record", "enum"} THEN <<avro.name>> ELSE <<>>) \o below(1)

PairwiseDistinct(s) == \A i, j \in 1..Len(s) : i # j => s[i] # s[j]

\* C22: within one flattening pass over a schema whose record and enum names
\* are valid and pairwise distinct, two distinct anonymous types (maps and
\* non-inlined unions) never receive the same synthesized name.
C22_NoSynthesizedCollision ==
  (AllNamesMatch(input) /\ PairwiseDistinct(DeclaredNames(input))) =>
    \A i, j \in 1..Len(allTypes) :
      (/\ i # j
       /\ allTypes[i].type.kind \in {"union", "map"}
       /\ allTypes[j].type.kind \in {"union", "map"})
      => allTypes[i].name # allTypes[j].name

\* The call at the top of the stack has flattened its children and is about
\* to return.
AboutToReturn ==
  /\ pc = "flatten"
  /\ Top.entered
  /\ Top.idx > Len(children(Top.node))

\* A record or enum is registered under its own declared name and replaced
\* by that name: the record rebuilt with its field names in order and its
\* field types flattened, the enum as it is.
NamedRegistered ==
  /\ (AboutToReturn /\ Top.node.kind = "record") =>
       LET rebuilt == [kind |-> "record", name |-> Top.node.name,
                       fields |-> [i \in 1..Len(Top.node.fields) |->
                                     [name |-> Top.node.fields[i].name,
                                      type |-> Top.acc[i]]]]
       IN  /\ allTypes' = Append(allTypes, [name |-> Top.node.name, type |-> rebuilt])
           /\ ReturnsToCaller([kind |-> "string", value |-> Top.node.name])
  /\ (AboutToReturn /\ Top.node.kind = "enum") =>
       /\ allTypes' = Append(allTypes, [name |-> Top.node.name, type |-> Top.node])
       /\ ReturnsToCaller([kind |-> "string", value |-> Top.node.name])

\* C23 as stated: a record or enum is registered under its own declared name
\* and that name is returned; primitives and custom references are returned
\* unchanged and register nothing.
C23_NamedAndLeaves ==
  [][/\ NamedRegistered
     /\ (AboutToReturn /\ Top.node.kind \in {"string", "object"}) =>
          /\ allTypes' = allTypes
          /\ ReturnsToCaller(Top.node)]_vars

\* C23, amended: as stated for records, enums, custom references and
\* primitives written as a string; a primitive written as an object
\* {type: p} registers nothing and is returned as the string p.
C23_NamedAndNormalisedLeaves ==
  [][/\ NamedRegistered
     /\ (AboutToReturn /\ Top.node.kind = "string") =>
          /\ allTypes' = allTypes
          /\ ReturnsToCaller(Top.node)
     /\ (AboutToReturn /\ Top.node.kind = "object") =>
          /\ allTypes' = allTypes
          /\ ReturnsToCaller([kind |-> "string", value |-> Top.node.type])]_vars

C23_Witness ==
  /\ FlattenDone
  /\ \E i, j \in 1..Len(allTypes) :
       /\ i < j
       /\ allTypes[i].type.kind = "enum"
       /\ allTypes[i].type.symbols = << <<"x">>, <<"y">> >>
       /\ allTypes[j].type.kind = "record"
       /\ allTypes[j].name = allTypes[j].type.name
       /\ allTypes[j].type.fields[1].type = Str(allTypes[i].name)
  /\ \E i \in 1..Len(allTypes) :
       /\ allTypes[i].type.kind = "record"
       /\ allTypes[i].type.fields # <<>>

\* C25: rendering starts only after the whole flattening pass, so errors are
\* reported in phase order: a schema with an invalid record or enum name
\* fails with the invalid-name error and renders nothing, also when it
\* contains an unknown custom reference or bytes, wherever each occurs; and
\* a record's name is validated before any of its fields is visited.
C25_PhaseOrder ==
  /\ (pc = "done" /\ ~AllNamesMatch(input)) =>
       /\ result.status = "error"
       /\ \E k \in 1..Len(DeclaredNames(input)) :
            /\ ~MatchesNameRegex(DeclaredNames(input)[k])
            /\ result.message =
                 <<"'">> \o DeclaredNames(input)[k] \o <<"' is not a valid avro name">>
       /\ statements = <<>>
       /\ last = NoEntry
  /\ (pc \in {"getLast", "declarations", "generate"} \/ statements # <<>>) =>
       /\ stack = <<>>
       /\ AllNamesMatch(input)
       /\ TableNames = PostOrderNames(input, <<>>)
  /\ \A k \in 2..Len(stack) :
       stack[k - 1].node.kind = "record" => MatchesNameRegex(stack[k - 1].node.name)

C25_Witness ==
  /\ pc = "done"
  /\ input.kind = "record"
  /\ Len(input.fields) = 3
  /\ input.fields[1].type = Str(N_intt)
  /\ input.fields[2].type = Str(S_bytes)
  /\ input.fields[3].type.kind = "enum"
  /\ result.status = "error"
  /\ result.message = <<"'">> \o N_9Enum \o <<"' is not a valid avro name">>

InTable(name) == \E i \in 1..Len(allTypes) : allTypes[i].name = name

N_R_SomeMap_Map == <<"R","_","S","o","m","e","M","a","p","_","M","a","p">>

\* C26: a custom reference is accepted if and only if its name is the name
\* of some entry of the complete final table, whatever the entry's position
\* and kind: a call succeeds only if every reference of the input names an
\* entry; the unknown-custom-type error names a reference that names no
\* entry; and when every reference names an entry (a record or enum declared
\* later in the schema, or a synthesized union or map name, included) and
\* nothing else is wrong (names valid, table not empty, no bytes), the call
\* succeeds.
C26_AcceptedIffInFinalTable ==
  /\ result.status = "ok" => \A n \in CustomRefs(input) : InTable(n)
  /\ (pc = "done" /\ result.status = "error") =>
       \A n \in CustomRefs(input) :
         result.message = n \o <<" is not a valid custom type name.">> => ~InTable(n)
  /\ (/\ pc = "done"
      /\ AllNamesMatch(input)
      /\ allTypes # <<>>
      /\ ~ContainsBytes(input)
      /\ \A n \in CustomRefs(input) : InTable(n))
     => result.status = "ok"

C26_Witness ==
  /\ pc = "done"
  /\ result.status = "ok"
  /\ input.kind = "record"
  /\ Len(input.fields) = 2
  /\ input.fields[1].type = Str(N_R_SomeMap_Map)
  /\ input.fields[2].type.kind = "map"
  /\ \E i \in 1..Len(allTypes) :
       allTypes[i].name = N_R_SomeMap_Map /\ allTypes[i].type.kind = "map"

\* The custom references occurring in the entries of the table.
TableRefs == UNION {CustomRefs(allTypes[i].type) : i \in 1..Len(allTypes)}

\* C27: reference integrity of the flattened output: a name that flattening
\* puts in place of a nested record, enum, map or non-inlined union is, from
\* then on, the name of an entry of the table; so after flattening every
\* reference in a table entry names an entry or was written as a bare string
\* in the input, and the unknown-custom-type error is only ever raised for a
\* name written as a bare string in the input.
C27_ReferenceIntegrity ==
  /\ [][(/\ AboutToReturn
         /\ Len(stack) > 1
         /\ Top.node.kind \in {"record", "enum", "map", "union"}) =>
          LET acc == stack'[Len(stack')].acc
              v   == acc[Len(acc)]
          IN  v.kind = "string" =>
                \E i \in 1..Len(allTypes') : allTypes'[i].name = v.value]_vars
  /\ [](FlattenDone => \A n \in TableRefs : InTable(n) \/ n \in CustomRefs(input))
  /\ []((pc = "done" /\ result.status = "error") =>
          \A n \in TableRefs \cup CustomRefs(input) :
            result.message = n \o <<" is not a valid custom type name.">>
              => (n \in CustomRefs(input) /\ ~InTable(n)))

C27_Witness ==
  /\ pc = "done"
  /\ result.status = "error"
  /\ result.message = N_intt \o <<" is not a valid custom type name.">>
  /\ \E n \in TableRefs : InTable(n) /\ n \notin CustomRefs(input)
  /\ \E i \in 1..Len(allTypes) : allTypes[i].type.kind \in {"union", "map"}

====
